---- MODULE Spec2Model ----
(***************************************************************************)
(* Restaurant-review program (src/restaurant_review): a ledger of          *)
(* accounts, the transactions a client can submit to process_instruction,  *)
(* and the handlers add_review and update_review, with the borsh codecs    *)
(* they store and parse records with.                                      *)
(* Token-transfer program (src/CPI_Transfer): a handler that has the SPL   *)
(* token program move tokens out of an account its derived address owns.   *)
(* Counter program (src/counter): its instruction decoder.                 *)
(*                                                                         *)
(* Specifications.                                                         *)
(*  - Spec: transactions of the review program on the ledger.              *)
(*  - SpecTransfer: transactions of the transfer program on token accounts.*)
(*  - SpecDecode: instruction buffers, edited byte by byte, and decoded.   *)
(*  - SpecRecord: records written over one another in an account buffer.   *)
(*  - SpecEdge: reviews that fill the account or exceed it by one byte,    *)
(*    next to unsigned and misaddressed ones.                              *)
(*  - SpecInvoke: Creates and transfers, the two operations that invoke   *)
(*    another program with signer seeds, in any order.                     *)
(*  - SpecOrder: signed reviews by wallets funded as the tests fund them,  *)
(*    some for one review account only.                                    *)
(*                                                                         *)
(* Conventions.                                                            *)
(*  - A byte string is a sequence of numbers in 0..255.                    *)
(*  - A byte buffer (account data, instruction payload) is a record        *)
(*    [len, used]: the buffer is `len` bytes long, its first Len(used)     *)
(*    bytes are `used` and every byte after them is zero.  Account data is *)
(*    kept canonical (`used` never ends in a zero byte), so two accounts   *)
(*    are equal exactly when their buffers hold the same bytes.            *)
(*  - A Pubkey is a record [kind, bytes, of].  A program-derived address   *)
(*    is the hash of its preimage; the hash is modelled as collision free, *)
(*    that is, by the preimage itself (`bytes` is seeds ++ bump, `of` the  *)
(*    deriving program).                                                   *)
(***************************************************************************)
EXTENDS Integers, Sequences, FiniteSets, TLC

VARIABLES
    bank,      \* the host's account store: Pubkey -> [lamports, owner, data]
    created,   \* history: for each address, who created the review in it
    ntx,       \* number of transactions the host has processed
    tokens,    \* the token program's accounts: Pubkey -> mint or token account
    wire,      \* an instruction buffer handed to the decoders
    nedits,    \* number of edits made to the instruction buffer
    decoded,   \* what the decoders make of the instruction buffer
    slot,      \* the data of one review account
    written    \* history: the record last written into `slot`

vars == <<bank, created, ntx, tokens, wire, nedits, decoded, slot, written>>

review_vars == <<bank, created>>
decode_vars == <<wire, nedits, decoded>>
record_vars == <<slot, written>>

-----------------------------------------------------------------------------
(* Bounds of the model                                                     *)

MaxTx == 3          \* transactions in a run
MaxEdits == 2       \* edits made to an instruction buffer

-----------------------------------------------------------------------------
(* Pubkeys                                                                 *)

Wallet(k) == [kind |-> "wallet", bytes |-> <<k>>, of |-> "-"]
ProgramKey(name) == [kind |-> "program", bytes |-> <<>>, of |-> name]

program_id == ProgramKey("review")
SYSTEM_PROGRAM_ID == ProgramKey("system")

Keys == {Wallet(1), Wallet(2)}

\* Pubkey::as_ref
as_ref(key) == key.bytes

-----------------------------------------------------------------------------
(* Results                                                                 *)

Ok == [ok |-> TRUE, name |-> "Ok", code |-> 0]
Err(name) == [ok |-> FALSE, name |-> name, code |-> 0]
Custom(code) == [ok |-> FALSE, name |-> "Custom", code |-> code]

\* enum ReviewError, `e as u32`
UninitializedAccount == 0
InvalidPDA == 1
InvalidRating == 2

ReviewError_into(e) == Custom(e)

-----------------------------------------------------------------------------
(* Byte buffers and borsh                                                  *)

RECURSIVE Trim(_)
Trim(s) == IF s = <<>> THEN s
           ELSE IF s[Len(s)] = 0 THEN Trim(SubSeq(s, 1, Len(s) - 1)) ELSE s

Buffer(bytes) == [len |-> Len(bytes), used |-> bytes]
ByteAt(b, i) == IF i <= Len(b.used) THEN b.used[i] ELSE 0
Tail_from(b, pos) ==
    [len |-> b.len - (pos - 1), used |-> SubSeq(b.used, pos, Len(b.used))]

u32_to_le_bytes(n) ==
    << n % 256, (n \div 256) % 256, (n \div 65536) % 256, (n \div 16777216) % 256 >>

u32_from_le_bytes(b, pos) ==
    ByteAt(b, pos) + 256 * ByteAt(b, pos + 1) + 65536 * ByteAt(b, pos + 2)
        + 16777216 * ByteAt(b, pos + 3)

serialize_bool(v) == IF v THEN <<1>> ELSE <<0>>
serialize_u8(v) == <<v>>
serialize_String(s) == u32_to_le_bytes(Len(s)) \o s

\* A read returns [ok, val, next]: next is the position after the value.
ReadErr == [ok |-> FALSE, val |-> 0, next |-> 0]

deserialize_u8(b, pos) ==
    IF pos > b.len THEN ReadErr
    ELSE [ok |-> TRUE, val |-> ByteAt(b, pos), next |-> pos + 1]

deserialize_bool(b, pos) ==
    IF pos > b.len THEN ReadErr
    ELSE IF ByteAt(b, pos) = 0 THEN [ok |-> TRUE, val |-> FALSE, next |-> pos + 1]
    ELSE IF ByteAt(b, pos) = 1 THEN [ok |-> TRUE, val |-> TRUE, next |-> pos + 1]
    ELSE ReadErr

is_utf8(s) == \A i \in 1..Len(s) : s[i] < 128

\* A length of 2^24 or more exceeds every buffer.
deserialize_String(b, pos) ==
    IF pos + 3 > b.len \/ ByteAt(b, pos + 3) # 0 THEN ReadErr
    ELSE LET n == u32_from_le_bytes(b, pos)
         IN IF pos + 3 + n > b.len THEN ReadErr
            ELSE LET s == [i \in 1..n |-> ByteAt(b, pos + 3 + i)]
                 IN IF is_utf8(s)
                    THEN [ok |-> TRUE, val |-> s, next |-> pos + 4 + n]
                    ELSE ReadErr

\* Mutant: the bytes that fit are copied and the rest is dropped silently
write_all_truncates(b, bytes) ==
    LET n == IF Len(bytes) <= b.len THEN Len(bytes) ELSE b.len
        rest == IF Len(b.used) > n THEN SubSeq(b.used, n + 1, Len(b.used)) ELSE <<>>
    IN [ok |-> TRUE,
        data |-> [len |-> b.len, used |-> Trim(SubSeq(bytes, 1, n) \o rest)]]

\* impl Write for &mut [u8]: the bytes that fit are copied, WriteZero if some do not
write_all(b, bytes) ==
    LET n == IF Len(bytes) <= b.len THEN Len(bytes) ELSE b.len
        rest == IF Len(b.used) > n THEN SubSeq(b.used, n + 1, Len(b.used)) ELSE <<>>
    IN [ok |-> Len(bytes) <= b.len,
        data |-> [len |-> b.len, used |-> Trim(SubSeq(bytes, 1, n) \o rest)]]

-----------------------------------------------------------------------------
(* state.rs: the stored record                                             *)

AccountState(is_initialized, rating, description, title) ==
    [is_initialized |-> is_initialized, rating |-> rating,
     description |-> description, title |-> title]

\* Mutant: the title is written before the description
AccountState_bytes_title_first(st) ==
    serialize_bool(st.is_initialized) \o serialize_u8(st.rating)
        \o serialize_String(st.title) \o serialize_String(st.description)

\* #[derive(BorshSerialize)]: the fields in declaration order
AccountState_bytes(st) ==
    serialize_bool(st.is_initialized) \o serialize_u8(st.rating)
        \o serialize_String(st.description) \o serialize_String(st.title)

\* account_data.serialize(&mut &mut data[..])
AccountState_serialize(st, data) == write_all(data, AccountState_bytes(st))

\* Mutant: try_from_slice, which fails when bytes are left after the record
AccountState_try_from_slice(data) ==
    LET i == deserialize_bool(data, 1)
        r == deserialize_u8(data, 2)
        d == deserialize_String(data, 3)
        t == deserialize_String(data, d.next)
    IN IF i.ok /\ r.ok /\ d.ok /\ t.ok /\ t.next > data.len
       THEN [ok |-> TRUE, val |-> AccountState(i.val, r.val, d.val, t.val)]
       ELSE [ok |-> FALSE, val |-> AccountState(FALSE, 0, <<>>, <<>>)]

\* Mutant: a reader in the manner of Pack::unpack, which turns down a record
\* whose is_initialized flag is not set
AccountState_unpack(data) ==
    LET i == deserialize_bool(data, 1)
        r == deserialize_u8(data, 2)
        d == deserialize_String(data, 3)
        t == deserialize_String(data, d.next)
    IN IF i.ok /\ r.ok /\ d.ok /\ t.ok /\ i.val
       THEN [ok |-> TRUE, val |-> AccountState(i.val, r.val, d.val, t.val)]
       ELSE [ok |-> FALSE, val |-> AccountState(FALSE, 0, <<>>, <<>>)]

\* #[derive(BorshDeserialize)]: AccountState::deserialize(&mut &data[..]);
\* bytes after the record are not looked at.
AccountState_deserialize(data) ==
    LET i == deserialize_bool(data, 1) IN
    IF ~i.ok THEN [ok |-> FALSE, val |-> AccountState(FALSE, 0, <<>>, <<>>)] ELSE
    LET r == deserialize_u8(data, i.next) IN
    IF ~r.ok THEN [ok |-> FALSE, val |-> AccountState(FALSE, 0, <<>>, <<>>)] ELSE
    LET d == deserialize_String(data, r.next) IN
    IF ~d.ok THEN [ok |-> FALSE, val |-> AccountState(FALSE, 0, <<>>, <<>>)] ELSE
    LET t == deserialize_String(data, d.next) IN
    IF ~t.ok THEN [ok |-> FALSE, val |-> AccountState(FALSE, 0, <<>>, <<>>)] ELSE
    [ok |-> TRUE, val |-> AccountState(i.val, r.val, d.val, t.val)]

\* impl IsInitialized for AccountState
is_initialized(st) == st.is_initialized

-----------------------------------------------------------------------------
(* instruction.rs: the instruction codec                                   *)

AddReview == 0
UpdateReview == 1

NoInstruction ==
    [ok |-> FALSE, variant |-> 255, title |-> <<>>, rating |-> 0, description |-> <<>>]

\* Mutant: deserialize, which leaves bytes after the payload unread
ReviewPayload_deserialize(rest) ==
    LET t == deserialize_String(rest, 1)
        r == deserialize_u8(rest, t.next)
        d == deserialize_String(rest, r.next)
    IN IF t.ok /\ r.ok /\ d.ok
       THEN [ok |-> TRUE, variant |-> 255, title |-> t.val, rating |-> r.val,
             description |-> d.val]
       ELSE NoInstruction

\* ReviewPayload::try_from_slice(rest): title, rating, description, and
\* every byte of the slice must have been read.
ReviewPayload_try_from_slice(rest) ==
    LET t == deserialize_String(rest, 1) IN
    IF ~t.ok THEN NoInstruction ELSE
    LET r == deserialize_u8(rest, t.next) IN
    IF ~r.ok THEN NoInstruction ELSE
    LET d == deserialize_String(rest, r.next) IN
    IF ~d.ok THEN NoInstruction ELSE
    IF d.next <= rest.len THEN NoInstruction ELSE
    [ok |-> TRUE, variant |-> 255, title |-> t.val, rating |-> r.val,
     description |-> d.val]

\* Mutant: every variant byte but 0 is taken for an update
unpack_any_variant(input) ==
    IF input.len = 0 THEN NoInstruction ELSE
    LET payload == ReviewPayload_try_from_slice(Tail_from(input, 2))
    IN IF ~payload.ok THEN NoInstruction
       ELSE [payload EXCEPT !.variant = IF ByteAt(input, 1) = AddReview
                                        THEN AddReview ELSE UpdateReview]

\* ReviewInstruction::unpack
unpack(input) ==
    IF input.len = 0 THEN NoInstruction ELSE
    LET variant == ByteAt(input, 1)
        payload == ReviewPayload_try_from_slice(Tail_from(input, 2))
    IN IF ~payload.ok THEN NoInstruction
       ELSE IF variant = AddReview \/ variant = UpdateReview
            THEN [payload EXCEPT !.variant = variant]
            ELSE NoInstruction

\* The clients' encoders (tests): [variant byte][borsh payload]
ReviewPayload_bytes(title, rating, description) ==
    serialize_String(title) \o serialize_u8(rating) \o serialize_String(description)

create_add_review_instruction_data(title, rating, description) ==
    <<0>> \o ReviewPayload_bytes(title, rating, description)

create_update_review_instruction_data(title, rating, description) ==
    <<1>> \o ReviewPayload_bytes(title, rating, description)

-----------------------------------------------------------------------------
(* src/counter/src/instructions.rs: the counter program's decoder          *)

\* The outcome of a decode: an instruction ("op"), an error value ("err"),
\* or a panic that aborts the program ("panic").  The u32 of CounterArgs is
\* kept as its four little-endian bytes.
CounterOp(variant, value) == [outcome |-> "op", variant |-> variant, value |-> value]
CounterErr == [outcome |-> "err", variant |-> 255, value |-> <<>>]
CounterPanic == [outcome |-> "panic", variant |-> 255, value |-> <<>>]

\* CounterArgs::try_from_slice(rest): one u32, and nothing after it
CounterArgs_try_from_slice(rest) ==
    IF rest.len = 4
    THEN [ok |-> TRUE, val |-> [i \in 1..4 |-> ByteAt(rest, i)]]
    ELSE [ok |-> FALSE, val |-> <<>>]

\* Mutant: the variants 0, 1, 2 as in unpack, every other byte is Reset
unpack_reset_by_default(input) ==
    IF input.len = 0 THEN CounterErr ELSE
    LET variant == ByteAt(input, 1)
        args == CounterArgs_try_from_slice(Tail_from(input, 2))
    IN IF variant \in {0, 1, 2}
       THEN IF args.ok THEN CounterOp(variant, args.val) ELSE CounterPanic
       ELSE CounterOp(3, <<>>)

\* CounterInstructions::unpack; `.unwrap()` panics on a failed parse
CounterInstructions_unpack(input) ==
    IF input.len = 0 THEN CounterErr ELSE
    LET variant == ByteAt(input, 1)
        args == CounterArgs_try_from_slice(Tail_from(input, 2))
    IN IF variant \in {0, 1, 2}
       THEN IF args.ok THEN CounterOp(variant, args.val) ELSE CounterPanic
       ELSE IF variant = 3 THEN CounterOp(3, <<>>)
       ELSE CounterErr

-----------------------------------------------------------------------------
(* Program-derived addresses (Pubkey::find_program_address)                *)

RECURSIVE Concat(_)
Concat(seeds) == IF seeds = <<>> THEN <<>> ELSE Head(seeds) \o Concat(Tail(seeds))

RECURSIVE ByteSum(_)
ByteSum(s) == IF s = <<>> THEN 0 ELSE Head(s) + ByteSum(Tail(s))

\* Whether the hash of the preimage is a point of the signing-key curve.  The
\* curve test is a fixed predicate of the hash; here, of the preimage.
is_on_curve(preimage) == ByteSum(preimage) % 2 = 0

\* Pubkey::create_program_address: hash(seeds ++ program id), no address if
\* the hash is on the curve.
create_program_address(seeds, pid) ==
    LET preimage == Concat(seeds)
    IN [ok |-> ~is_on_curve(preimage),
        address |-> [kind |-> "pda", bytes |-> preimage, of |-> pid.of]]

\* The bump goes from 255 down; the first one that gives an address is taken.
RECURSIVE try_find_program_address(_, _, _)
try_find_program_address(seeds, pid, bump) ==
    LET r == create_program_address(Append(seeds, <<bump>>), pid)
    IN IF r.ok THEN [ok |-> TRUE, address |-> r.address, bump |-> bump]
       ELSE IF bump = 0 THEN [ok |-> FALSE, address |-> r.address, bump |-> 0]
       ELSE try_find_program_address(seeds, pid, bump - 1)

find_program_address(seeds, pid) == try_find_program_address(seeds, pid, 255)

-----------------------------------------------------------------------------
(* The host: accounts, the system program, cross-program invocation        *)

Account(lamports, owner, data) ==
    [lamports |-> lamports, owner |-> owner, data |-> data]

NoData == [len |-> 0, used |-> <<>>]

\* An address nothing was ever stored at
Unallocated == Account(0, SYSTEM_PROGRAM_ID, NoData)

\* Rent::default().minimum_balance(data_len)
minimum_balance(data_len) == (128 + data_len) * 3480 * 2

\* An AccountInfo as a handler sees it; lamports, owner and data are looked
\* up in the store the transaction works on.
AccountInfo(key, is_signer) == [key |-> key, is_signer |-> is_signer]

\* Mutant: an account in use is allocated again
system_create_account_overwrites(b, from, to, lamports, space, owner) ==
    IF b[from].lamports < lamports THEN [res |-> Custom(1), bank |-> b]
    ELSE [res |-> Ok,
          bank |-> [b EXCEPT
              ![from] = [@ EXCEPT !.lamports = @ - lamports],
              ![to] = Account(lamports, owner, [len |-> space, used |-> <<>>])]]

\* Mutant: the payer is charged its whole balance
system_create_account_drains_payer(b, from, to, lamports, space, owner) ==
    IF b[to].lamports > 0 THEN [res |-> Custom(0), bank |-> b]
    ELSE IF b[to].data.len > 0 \/ b[to].owner # SYSTEM_PROGRAM_ID
         THEN [res |-> Custom(0), bank |-> b]
    ELSE IF b[from].lamports < lamports THEN [res |-> Custom(1), bank |-> b]
    ELSE [res |-> Ok,
          bank |-> [b EXCEPT
              ![from] = [@ EXCEPT !.lamports = 0],
              ![to] = Account(b[from].lamports, owner,
                              [len |-> space, used |-> <<>>])]]

\* system_instruction::create_account as the system program executes it:
\* the new account must not be in use, the payer must hold the lamports.
system_create_account(b, from, to, lamports, space, owner) ==
    IF b[to].lamports > 0 THEN [res |-> Custom(0), bank |-> b]
    ELSE IF b[to].data.len > 0 \/ b[to].owner # SYSTEM_PROGRAM_ID
         THEN [res |-> Custom(0), bank |-> b]
    ELSE IF b[from].lamports < lamports THEN [res |-> Custom(1), bank |-> b]
    ELSE [res |-> Ok,
          bank |-> [b EXCEPT
              ![from] = [@ EXCEPT !.lamports = @ - lamports],
              ![to] = Account(lamports, owner, [len |-> space, used |-> <<>>])]]

\* invoke_signed of create_account: `from` and `to` must sign.  An account
\* signs if it signed the transaction or if the caller's signer seeds derive
\* its address.
invoke_signed_create_account(b, pid, from, to, lamports, space, owner, account_infos, signers_seeds) ==
    LET derived == create_program_address(signers_seeds, pid)
        signs(key) ==
            \/ \E i \in 1..Len(account_infos) :
                   account_infos[i].key = key /\ account_infos[i].is_signer
            \/ derived.ok /\ derived.address = key
    IN IF ~derived.ok THEN [res |-> Err("InvalidSeeds"), bank |-> b]
       ELSE IF ~signs(from) \/ ~signs(to)
            THEN [res |-> Err("PrivilegeEscalation"), bank |-> b]
       ELSE system_create_account(b, from, to, lamports, space, owner)

-----------------------------------------------------------------------------
(* lib.rs: the handlers.  A handler works on the transaction's copy `b` of *)
(* the account store and returns [res, bank]: its result and the store as  *)
(* it left it.                                                             *)

account_len == 1000

\* Mutant: the lower bound is not checked
rating_above_ten(rating) == rating > 10

\* Mutant: the upper bound is off by one, a rating of 10 is turned down
rating_ten_or_above(rating) == rating >= 10 \/ rating < 1

\* if rating > 10 || rating < 1
rating_out_of_range(rating) == rating > 10 \/ rating < 1

\* Mutant: the derived address is not compared
pda_differs_never(pda, key) == FALSE

\* if pda != *pda_account.key
pda_differs(pda, key) == pda # key

\* Mutant: the owner of the account is not checked
owner_differs_never(owner, pid) == FALSE

\* if pda_account.owner != program_id
owner_differs(owner, pid) == owner # pid

\* Mutant: the signature is not checked
signer_missing_never(info) == FALSE

\* if !initializer.is_signer
signer_missing(info) == ~info.is_signer

\* Mutant: the seeds are given in the other order
review_seeds_title_first(key, title) == <<title, as_ref(key)>>

\* Mutant: the title is left out of the seeds
review_seeds_key_only(key, title) == <<as_ref(key)>>

\* &[initializer.key.as_ref(), title.as_bytes().as_ref()]
review_seeds(key, title) == <<as_ref(key), title>>

\* Mutant: the description is not replaced
updated_state_rating_only(account_data, _title, rating, description) ==
    [account_data EXCEPT !.rating = rating]

\* Mutant: the title of the instruction replaces the stored one
updated_state_with_title(account_data, _title, rating, description) ==
    [account_data EXCEPT !.rating = rating, !.description = description,
                         !.title = _title]

\* account_data.rating = rating; account_data.description = description;
\* the title of the instruction is not used.
updated_state(account_data, _title, rating, description) ==
    [account_data EXCEPT !.rating = rating, !.description = description]

add_review(pid, accounts, title, rating, description, b) ==
    IF Len(accounts) < 3 THEN [res |-> Err("NotEnoughAccountKeys"), bank |-> b] ELSE
    LET initializer == accounts[1]
        pda_account == accounts[2]
    IN
    IF signer_missing(initializer)
    THEN [res |-> Err("MissingRequiredSignature"), bank |-> b] ELSE
    LET found == find_program_address(review_seeds(initializer.key, title), pid)
        pda == found.address
        bump_seed == found.bump
    IN
    IF ~found.ok THEN [res |-> Err("ProgramFailedToComplete"), bank |-> b] ELSE
    IF pda_differs(pda, pda_account.key)
    THEN [res |-> Err("InvalidArgument"), bank |-> b] ELSE
    IF rating_out_of_range(rating)
    THEN [res |-> ReviewError_into(InvalidRating), bank |-> b] ELSE
    LET rent_lamports == minimum_balance(account_len)
        cpi == invoke_signed_create_account(
                   b, pid, initializer.key, pda_account.key, rent_lamports,
                   account_len, pid, accounts,
                   <<as_ref(initializer.key), title, <<bump_seed>>>>)
    IN
    IF ~cpi.res.ok THEN cpi ELSE
    LET account_data == AccountState(TRUE, rating, description, title)
        w == AccountState_serialize(account_data, cpi.bank[pda_account.key].data)
        after == [cpi.bank EXCEPT ![pda_account.key].data = w.data]
    IN [res |-> IF w.ok THEN Ok ELSE Err("BorshIoError"), bank |-> after]

update_review(pid, accounts, _title, rating, description, b) ==
    IF Len(accounts) < 2 THEN [res |-> Err("NotEnoughAccountKeys"), bank |-> b] ELSE
    LET initializer == accounts[1]
        pda_account == accounts[2]
    IN
    IF owner_differs(b[pda_account.key].owner, pid)
    THEN [res |-> Err("IllegalOwner"), bank |-> b] ELSE
    IF signer_missing(initializer)
    THEN [res |-> Err("MissingRequiredSignature"), bank |-> b] ELSE
    LET read == AccountState_deserialize(b[pda_account.key].data)
        account_data == read.val
    IN
    IF ~read.ok THEN [res |-> Err("InvalidAccountData"), bank |-> b] ELSE
    LET found == find_program_address(
                     review_seeds(initializer.key, account_data.title), pid)
        pda == found.address
    IN
    IF ~found.ok THEN [res |-> Err("ProgramFailedToComplete"), bank |-> b] ELSE
    IF pda_differs(pda, pda_account.key)
    THEN [res |-> ReviewError_into(InvalidPDA), bank |-> b] ELSE
    IF ~is_initialized(account_data)
    THEN [res |-> ReviewError_into(UninitializedAccount), bank |-> b] ELSE
    IF rating_out_of_range(rating)
    THEN [res |-> ReviewError_into(InvalidRating), bank |-> b] ELSE
    LET updated == updated_state(account_data, _title, rating, description)
        w == AccountState_serialize(updated, b[pda_account.key].data)
        after == [b EXCEPT ![pda_account.key].data = w.data]
    IN [res |-> IF w.ok THEN Ok ELSE Err("BorshIoError"), bank |-> after]

\* match instruction { AddReview {..} => add_review(..), UpdateReview {..} =>
\* update_review(..) }, and the `?` on the result of unpack
match_instruction(pid, accounts, instruction, b) ==
    IF ~instruction.ok THEN [res |-> Err("InvalidInstructionData"), bank |-> b]
    ELSE IF instruction.variant = AddReview
         THEN add_review(pid, accounts, instruction.title, instruction.rating,
                         instruction.description, b)
         ELSE update_review(pid, accounts, instruction.title, instruction.rating,
                            instruction.description, b)

process_instruction(pid, accounts, instruction_data, b) ==
    match_instruction(pid, accounts, unpack(instruction_data), b)

\* Mutant: what a failed handler wrote is kept
commit_always(res, before, after) == after

\* banks_client.process_transaction: the store after a transaction is the
\* handler's store if it returned Ok and the store before it otherwise.
commit(res, before, after) == IF res.ok THEN after ELSE before

\* The outcome of a transaction whose instruction ended as `out`
committed(out, before) ==
    [res |-> out.res, bank |-> commit(out.res, before, out.bank)]

process_transaction(b, accounts, data) ==
    committed(process_instruction(program_id, accounts, Buffer(data), b), b)

-----------------------------------------------------------------------------
(* src/CPI_Transfer: the transfer program, and the SPL token program it    *)
(* invokes with its derived address as the authority                       *)

transfer_program_id == ProgramKey("transfer")
SPL_TOKEN_ID == ProgramKey("spl_token")

\* b"authority"
authority_seed == <<97, 117, 116, 104, 111, 114, 105, 116, 121>>

\* What the token program keeps at an address: nothing, a mint, or a token
\* account (spl_token::state::{Mint, Account})
NoToken == [type |-> "none"]
Mint(decimals) == [type |-> "mint", decimals |-> decimals]
TokenAccount(mint, owner, amount, frozen) ==
    [type |-> "account", mint |-> mint, owner |-> owner, amount |-> amount,
     frozen |-> frozen]

\* Account::unpack / Mint::unpack: the data must be a value of that type
Account_unpack(tk, key) == tk[key].type = "account"
Mint_unpack(tk, key) == tk[key].type = "mint"

\* The token program's transfer_checked (Processor::process_transfer with
\* expected decimals), its checks in their order.  The authority has signed.
spl_token_process_transfer(tk, source, mint, destination, authority, amount, expected_decimals) ==
    IF ~Account_unpack(tk, source) \/ ~Account_unpack(tk, destination)
    THEN [res |-> Err("InvalidAccountData"), tokens |-> tk] ELSE
    IF tk[source].frozen \/ tk[destination].frozen
    THEN [res |-> Err("TokenError::AccountFrozen"), tokens |-> tk] ELSE
    IF tk[source].amount < amount
    THEN [res |-> Err("TokenError::InsufficientFunds"), tokens |-> tk] ELSE
    IF tk[source].mint # tk[destination].mint
    THEN [res |-> Err("TokenError::MintMismatch"), tokens |-> tk] ELSE
    IF mint # tk[source].mint
    THEN [res |-> Err("TokenError::MintMismatch"), tokens |-> tk] ELSE
    IF ~Mint_unpack(tk, mint)
    THEN [res |-> Err("InvalidAccountData"), tokens |-> tk] ELSE
    IF expected_decimals # tk[mint].decimals
    THEN [res |-> Err("TokenError::MintDecimalsMismatch"), tokens |-> tk] ELSE
    IF authority # tk[source].owner
    THEN [res |-> Err("TokenError::OwnerMismatch"), tokens |-> tk] ELSE
    IF source = destination \/ amount = 0
    THEN [res |-> Ok, tokens |-> tk] ELSE
    [res |-> Ok,
     tokens |-> [tk EXCEPT ![source].amount = @ - amount,
                           ![destination].amount = @ + amount]]

\* Mutant: invoke, without signer seeds: only a transaction signature counts
invoke_transfer_checked(tk, pid, source, mint, destination, authority, amount, decimals, account_infos, signers_seeds) ==
    LET signs(key) ==
            \E i \in 1..Len(account_infos) :
                account_infos[i].key = key /\ account_infos[i].is_signer
    IN IF ~signs(authority)
       THEN [res |-> Err("PrivilegeEscalation"), tokens |-> tk]
       ELSE spl_token_process_transfer(tk, source, mint, destination, authority,
                                       amount, decimals)

\* invoke_signed of transfer_checked: the instruction names the authority as
\* its signer, so the authority must have signed the transaction or be the
\* address the caller's signer seeds derive.
invoke_signed_transfer_checked(tk, pid, source, mint, destination, authority, amount, decimals, account_infos, signers_seeds) ==
    LET derived == create_program_address(signers_seeds, pid)
        signs(key) ==
            \/ \E i \in 1..Len(account_infos) :
                   account_infos[i].key = key /\ account_infos[i].is_signer
            \/ derived.ok /\ derived.address = key
    IN IF ~derived.ok THEN [res |-> Err("InvalidSeeds"), tokens |-> tk]
       ELSE IF ~signs(authority)
            THEN [res |-> Err("PrivilegeEscalation"), tokens |-> tk]
       ELSE spl_token_process_transfer(tk, source, mint, destination, authority,
                                       amount, decimals)

\* Mutant: the whole balance of the source is transferred
transfer_amount_whole_balance(source_account) == source_account.amount

\* let amount = 100
transfer_amount(source_account) == 100

\* The instruction a handler hands to invoke_signed, with the seeds it signs
\* with: spl_token::instruction::transfer_checked
transfer_checked(source, mint, destination, authority, amount, decimals, signers_seeds) ==
    [source |-> source, mint |-> mint, destination |-> destination,
     authority |-> authority, amount |-> amount, decimals |-> decimals,
     signers_seeds |-> signers_seeds]

\* Mutant: the handler signs with the seed alone, without the bump
authority_signer_seeds_without_bump(bump_seed) == <<authority_seed>>

\* &[&[b"authority", &[bump_seed]]]
authority_signer_seeds(bump_seed) == <<authority_seed, <<bump_seed>>>>

\* Mutant: the authority account is not compared with the derived address
authority_differs_never(expected, key) == FALSE

authority_differs(expected, key) == expected # key

\* process_instruction of the transfer program; a panic ends the program
\* with ProgramFailedToComplete.  `invoked` lists the instructions the
\* handler handed to invoke_signed.
transfer_process_instruction(pid, accounts, tk) ==
    IF Len(accounts) < 5 THEN [res |-> Err("NotEnoughAccountKeys"), tokens |-> tk, invoked |-> <<>>] ELSE
    LET source_info == accounts[1]
        mint_info == accounts[2]
        destination_info == accounts[3]
        authority_info == accounts[4]
        token_program_info == accounts[5]
        found == find_program_address(<<authority_seed>>, pid)
        expected_authority == found.address
        bump_seed == found.bump
    IN
    IF ~found.ok THEN [res |-> Err("ProgramFailedToComplete"), tokens |-> tk, invoked |-> <<>>] ELSE
    IF authority_differs(expected_authority, authority_info.key)
    THEN [res |-> Err("InvalidSeeds"), tokens |-> tk, invoked |-> <<>>] ELSE
    IF ~Account_unpack(tk, source_info.key)
    THEN [res |-> Err("InvalidAccountData"), tokens |-> tk, invoked |-> <<>>] ELSE
    LET amount == transfer_amount(tk[source_info.key]) IN
    IF ~Mint_unpack(tk, mint_info.key)
    THEN [res |-> Err("InvalidAccountData"), tokens |-> tk, invoked |-> <<>>] ELSE
    LET decimals == tk[mint_info.key].decimals IN
    IF token_program_info.key # SPL_TOKEN_ID
    THEN [res |-> Err("ProgramFailedToComplete"), tokens |-> tk, invoked |-> <<>>] ELSE
    LET signers_seeds == authority_signer_seeds(bump_seed)
        cpi == invoke_signed_transfer_checked(
                   tk, pid, source_info.key, mint_info.key, destination_info.key,
                   authority_info.key, amount, decimals, accounts, signers_seeds)
    IN [res |-> cpi.res, tokens |-> cpi.tokens,
        invoked |-> <<transfer_checked(source_info.key, mint_info.key,
                                       destination_info.key, authority_info.key,
                                       amount, decimals, signers_seeds)>>]

\* banks_client.process_transaction of an instruction for the transfer program
transfer_process_transaction(tk, accounts) ==
    LET out == transfer_process_instruction(transfer_program_id, accounts, tk)
    IN [res |-> out.res, tokens |-> commit(out.res, tk, out.tokens),
        invoked |-> out.invoked]

-----------------------------------------------------------------------------
(* The clients: what transactions are submitted                            *)

Titles == { <<80>>, <<81, 82>> }
Ratings == {0, 1, 10, 11}
Descriptions == { <<>>, <<71>> }

\* A description that, with the rest of the record, does not fit the account
LongDescription == [i \in 1..account_len |-> 71]

\* The address a client derives for its review of `title`
derive_review_address(key, title) ==
    find_program_address(<<as_ref(key), title>>, program_id).address

\* Every review address a client can derive, and the wallets
PDAs == {derive_review_address(k, t) : k \in Keys, t \in Titles}
Addresses == PDAs \cup Keys

instruction_data(variant, title, rating, description) ==
    IF variant = AddReview
    THEN create_add_review_instruction_data(title, rating, description)
    ELSE create_update_review_instruction_data(title, rating, description)

\* The accounts of an instruction, in the order the tests give them
Accounts(caller, is_signer, target) ==
    <<AccountInfo(caller, is_signer), AccountInfo(target, FALSE),
      AccountInfo(SYSTEM_PROGRAM_ID, FALSE)>>

funding == 30000000

\* The ledger before any review: funded wallets, nothing at the addresses
InitReview ==
    /\ bank = [a \in Addresses |->
                  IF a \in Keys THEN Account(funding, SYSTEM_PROGRAM_ID, NoData)
                  ELSE Unallocated]
    /\ created = [a \in Addresses |-> {}]

\* No token account exists
NoTokens == [a \in {} |-> NoToken]
InitNoTokens == tokens = NoTokens

\* No instruction buffer is being decoded, no record buffer written
Decode(bytes) ==
    [review |-> unpack(Buffer(bytes)),
     counter |-> CounterInstructions_unpack(Buffer(bytes))]

InitNoDecode == wire = <<>> /\ nedits = 0 /\ decoded = Decode(<<>>)
InitNoRecord == slot = NoData /\ written = AccountState(FALSE, 0, <<>>, <<>>)

Init ==
    /\ InitReview
    /\ ntx = 0
    /\ InitNoTokens
    /\ InitNoDecode
    /\ InitNoRecord

SubmitAddReview(caller, is_signer, target, title, rating, description) ==
    LET tx == process_transaction(
                  bank, Accounts(caller, is_signer, target),
                  instruction_data(AddReview, title, rating, description))
    IN /\ ntx < MaxTx
       /\ ntx' = ntx + 1
       /\ bank' = tx.bank
       /\ created' = IF tx.res.ok
                     THEN [created EXCEPT ![target] =
                              @ \cup {[by |-> caller, title |-> title]}]
                     ELSE created
       /\ UNCHANGED <<tokens, decode_vars, record_vars>>

SubmitUpdateReview(caller, is_signer, target, title, rating, description) ==
    LET tx == process_transaction(
                  bank, Accounts(caller, is_signer, target),
                  instruction_data(UpdateReview, title, rating, description))
    IN /\ ntx < MaxTx
       /\ ntx' = ntx + 1
       /\ bank' = tx.bank
       /\ UNCHANGED created
       /\ UNCHANGED <<tokens, decode_vars, record_vars>>

\* A signed, well-addressed review whose description is too long to store
SubmitLongReview(variant, caller, title) ==
    LET tx == process_transaction(
                  bank,
                  Accounts(caller, TRUE, derive_review_address(caller, title)),
                  instruction_data(variant, title, 10, LongDescription))
    IN /\ ntx < MaxTx
       /\ ntx' = ntx + 1
       /\ bank' = tx.bank
       /\ UNCHANGED created
       /\ UNCHANGED <<tokens, decode_vars, record_vars>>

Next ==
    \/ \E caller \in Keys, is_signer \in BOOLEAN, target \in Addresses,
          title \in Titles, rating \in Ratings, description \in Descriptions :
           \/ SubmitAddReview(caller, is_signer, target, title, rating, description)
           \/ SubmitUpdateReview(caller, is_signer, target, title, rating, description)
    \/ \E variant \in {AddReview, UpdateReview}, caller \in Keys, title \in Titles :
           SubmitLongReview(variant, caller, title)

Spec == Init /\ [][Next]_vars

-----------------------------------------------------------------------------
(* The review program at its edges: reviews that fill the account or are   *)
(* one byte too long for it, next to unsigned and misaddressed ones        *)

\* A description with which the record of `title` serializes to `size` bytes
SizedDescription(title, size) == [i \in 1..(size - 10 - Len(title)) |-> 71]

SubmitSizedAddReview(caller, title, size) ==
    SubmitAddReview(caller, TRUE, derive_review_address(caller, title), title,
                    10, SizedDescription(title, size))

SubmitSizedUpdateReview(caller, title, size) ==
    SubmitUpdateReview(caller, TRUE, derive_review_address(caller, title), title,
                       10, SizedDescription(title, size))

NextEdge ==
    \/ \E caller \in Keys, is_signer \in BOOLEAN, target \in Addresses,
          title \in Titles :
           \/ SubmitAddReview(caller, is_signer, target, title, 10, <<71>>)
           \/ SubmitUpdateReview(caller, is_signer, target, title, 10, <<71>>)
    \/ \E caller \in Keys, title \in Titles, size \in {account_len, account_len + 1} :
           \/ SubmitSizedAddReview(caller, title, size)
           \/ SubmitSizedUpdateReview(caller, title, size)

SpecEdge == Init /\ [][NextEdge]_vars

-----------------------------------------------------------------------------
(* The transfer program's clients (src/CPI_Transfer/tests)                 *)

payer == Wallet(1)
mint_a == Wallet(11)
mint_b == Wallet(12)

\* The address the transfer program signs for
authority_pubkey ==
    find_program_address(<<authority_seed>>, transfer_program_id).address

\* Token accounts: of the authority and of the payer, of either mint, and
\* one that the mint's freeze authority has frozen
TokenAccountKeys == {Wallet(21), Wallet(22), Wallet(23), Wallet(24), Wallet(25)}
TokenKeys == TokenAccountKeys \cup {mint_a, mint_b, payer}

TokenAmounts == {99, 100, 250}

initial_tokens(a1, a2, a3) ==
    [k \in TokenKeys |->
        IF k = mint_a THEN Mint(9)
        ELSE IF k = mint_b THEN Mint(6)
        ELSE IF k = Wallet(21) THEN TokenAccount(mint_a, authority_pubkey, a1, FALSE)
        ELSE IF k = Wallet(22) THEN TokenAccount(mint_a, authority_pubkey, a2, FALSE)
        ELSE IF k = Wallet(23) THEN TokenAccount(mint_a, payer, a3, FALSE)
        ELSE IF k = Wallet(24) THEN TokenAccount(mint_b, authority_pubkey, 100, FALSE)
        ELSE IF k = Wallet(25) THEN TokenAccount(mint_a, authority_pubkey, 100, TRUE)
        ELSE NoToken]

\* The accounts of the instruction, in the order the test gives them; none
\* of them signs.
TransferAccounts(source, mint, destination, authority, token_program) ==
    <<AccountInfo(source, FALSE), AccountInfo(mint, FALSE),
      AccountInfo(destination, FALSE), AccountInfo(authority, FALSE),
      AccountInfo(token_program, FALSE)>>

InitTransfer ==
    /\ InitReview
    /\ ntx = 0
    /\ \E a1 \in TokenAmounts, a2 \in TokenAmounts, a3 \in TokenAmounts :
           tokens = initial_tokens(a1, a2, a3)
    /\ InitNoDecode
    /\ InitNoRecord

SubmitTransfer(source, mint, destination, authority, token_program) ==
    LET tx == transfer_process_transaction(
                  tokens,
                  TransferAccounts(source, mint, destination, authority,
                                   token_program))
    IN /\ ntx < MaxTx
       /\ ntx' = ntx + 1
       /\ tokens' = tx.tokens
       /\ UNCHANGED <<review_vars, decode_vars, record_vars>>

NextTransfer ==
    \E source \in TokenKeys, mint \in {mint_a, mint_b, Wallet(21)},
       destination \in TokenKeys, authority \in {authority_pubkey, payer},
       token_program \in {SPL_TOKEN_ID, SYSTEM_PROGRAM_ID} :
        SubmitTransfer(source, mint, destination, authority, token_program)

SpecTransfer == InitTransfer /\ [][NextTransfer]_vars

-----------------------------------------------------------------------------
(* Properties.  A property about "an operation with these inputs" is       *)
(* stated in every reachable state over the transactions that could be     *)
(* submitted next: Run is the outcome of one of them in the current store. *)

Run(variant, caller, is_signer, target, title, rating, description) ==
    process_transaction(bank, Accounts(caller, is_signer, target),
                        instruction_data(variant, title, rating, description))

Read(b, a) == AccountState_deserialize(b[a].data)

Stored(record) == [ok |-> TRUE, val |-> record]

\* The bytes of the account after the record it holds
HasStaleBytes(a) ==
    Len(bank[a].data.used) > Len(AccountState_bytes(Read(bank, a).val))

Variants == {AddReview, UpdateReview}

\* C1: a successful Create signed by K on the slot derived from (K, title)
\* leaves a record there that reads back as initialized with exactly the
\* title, rating and description of the instruction, for every rating 1..10.
C1_CreateThenRead ==
    \A caller \in Keys, title \in Titles, rating \in 1..10,
       description \in Descriptions :
        LET target == derive_review_address(caller, title)
            tx == Run(AddReview, caller, TRUE, target, title, rating, description)
        IN tx.res.ok =>
               Read(tx.bank, target) =
                   Stored(AccountState(TRUE, rating, description, title))

C1_Witness ==
    \E k \in Keys :
        /\ ntx = 1
        /\ created[derive_review_address(k, <<81, 82>>)] # {}
        /\ Read(bank, derive_review_address(k, <<81, 82>>)) =
               Stored(AccountState(TRUE, 10, <<71>>, <<81, 82>>))

\* What a handler returns when its guard turns the operation down
AddRejectedByGuard ==
    {Err("NotEnoughAccountKeys"), Err("MissingRequiredSignature"),
     Err("ProgramFailedToComplete"), Err("InvalidArgument")}
UpdateRejectedByGuard ==
    {Err("NotEnoughAccountKeys"), Err("IllegalOwner"),
     Err("MissingRequiredSignature"), Err("InvalidAccountData"),
     Err("ProgramFailedToComplete"), Custom(InvalidPDA)}

\* C2: a Create gets past the guard only on the slot derived from the caller
\* and the title of the instruction, an Update only on the slot derived from
\* the caller and the title of the record, which the caller created; an
\* Update of a record signed by anyone but its creator is rejected with
\* InvalidPDA.
C2_GuardIsSound ==
    /\ \A caller \in Keys, is_signer \in BOOLEAN, target \in Addresses,
          title \in Titles, rating \in Ratings, description \in Descriptions :
           LET add == Run(AddReview, caller, is_signer, target, title, rating,
                          description)
               upd == Run(UpdateReview, caller, is_signer, target, title, rating,
                          description)
               record == Read(bank, target)
           IN /\ add.res \notin AddRejectedByGuard =>
                     target = derive_review_address(caller, title)
              /\ upd.res \notin UpdateRejectedByGuard =>
                     /\ record.ok
                     /\ target = derive_review_address(caller, record.val.title)
                     /\ created[target] =
                            {[by |-> caller, title |-> record.val.title]}
    /\ \A a \in PDAs : \A c \in created[a] : \A other \in Keys \ {c.by} :
           \A title \in Titles, rating \in Ratings, description \in Descriptions :
               Run(UpdateReview, other, TRUE, a, title, rating, description).res
                   = Custom(InvalidPDA)

C2_Witness ==
    \E a \in PDAs : \E c \in created[a] : \E other \in Keys \ {c.by} :
        /\ Run(UpdateReview, other, TRUE, a, c.title, 10, <<71>>).res
               = Custom(InvalidPDA)
        /\ Run(UpdateReview, c.by, TRUE, a, c.title, 10, <<71>>).res.ok

\* C3: an Update whose instruction carries another title than the record's
\* fails with InvalidPDA and changes nothing, even when the creator signs it
\* and it targets the record's own slot.
C3_UpdateWithOtherTitleFails ==
    \A a \in PDAs : \A c \in created[a] :
        \A title \in Titles \ {c.title}, rating \in Ratings,
           description \in Descriptions :
            LET tx == Run(UpdateReview, c.by, TRUE, a, title, rating, description)
            IN tx.res = Custom(InvalidPDA) /\ tx.bank = bank

\* C4: once a Create for (caller, title) has succeeded, every later Create
\* for the same (caller, title) is rejected and leaves every account as it
\* was; no slot is ever created twice.
C4_NoDoubleCreate ==
    \A a \in PDAs :
        /\ Cardinality(created[a]) <= 1
        /\ \A c \in created[a] :
               \A is_signer \in BOOLEAN, target \in Addresses, rating \in Ratings,
                  description \in Descriptions :
                   LET tx == Run(AddReview, c.by, is_signer, target, c.title,
                                 rating, description)
                   IN ~tx.res.ok /\ tx.bank = bank

C4_Witness ==
    \E a \in PDAs : \E c \in created[a] :
        /\ ntx >= 2
        /\ Run(AddReview, c.by, TRUE, a, c.title, 10, <<71>>).res = Custom(0)
        /\ Read(bank, a).val.rating = 1

\* Transactions a well-behaved client never sends: no data, a payload cut
\* short, an unknown variant, bytes after the payload.
MalformedData ==
    { <<>>, <<0>>, <<1, 1, 0, 0, 0, 80>>,
      <<2>> \o ReviewPayload_bytes(<<80>>, 10, <<71>>),
      create_add_review_instruction_data(<<80>>, 10, <<71>>) \o <<0>> }

\* C5: a transaction that fails leaves every account as it was, whatever
\* made it fail (decoding, signature, address, owner, rating, allocation,
\* serialization); one that succeeds has written the whole record.
C5_FailureChangesNothing ==
    /\ \A variant \in Variants, caller \in Keys, is_signer \in BOOLEAN,
          target \in Addresses, title \in Titles, rating \in Ratings,
          description \in Descriptions :
           LET tx == Run(variant, caller, is_signer, target, title, rating,
                         description)
               record == Read(tx.bank, target)
           IN /\ ~tx.res.ok => tx.bank = bank
              /\ tx.res.ok =>
                     /\ record.ok /\ record.val.is_initialized
                     /\ record.val.rating = rating
                     /\ record.val.description = description
    /\ \A variant \in Variants, caller \in Keys, title \in Titles :
           LET tx == Run(variant, caller, TRUE,
                         derive_review_address(caller, title), title, 10,
                         LongDescription)
           IN ~tx.res.ok /\ tx.bank = bank
    /\ \A caller \in Keys, target \in PDAs, data \in MalformedData :
           LET tx == process_transaction(bank, Accounts(caller, TRUE, target), data)
           IN ~tx.res.ok /\ tx.bank = bank
    /\ \A caller \in Keys, title \in Titles :
           LET tx == process_transaction(
                         bank,
                         SubSeq(Accounts(caller, TRUE,
                                         derive_review_address(caller, title)), 1, 2),
                         instruction_data(AddReview, title, 10, <<71>>))
           IN ~tx.res.ok /\ tx.bank = bank

\* Three transactions have failed and no account was touched, though the
\* handler of a review too long to store does leave an allocated, half-written
\* account behind for the host to discard.
C5_Witness ==
    /\ ntx = MaxTx
    /\ \A a \in PDAs : bank[a] = Unallocated
    /\ \E caller \in Keys :
           LET target == derive_review_address(caller, <<80>>)
               out == process_instruction(
                          program_id, Accounts(caller, TRUE, target),
                          Buffer(instruction_data(AddReview, <<80>>, 10,
                                                  LongDescription)),
                          bank)
           IN /\ ~out.res.ok
              /\ out.bank[target].owner = program_id
              /\ out.bank # bank

\* C6: an existing record changes only through a successful Update that its
\* creator signed and that targets its slot; nothing another identity signs
\* changes it.
C6_OnlyCreatorChangesRecord ==
    \A variant \in Variants, caller \in Keys, is_signer \in BOOLEAN,
       target \in Addresses, title \in Titles, rating \in Ratings,
       description \in Descriptions :
        LET tx == Run(variant, caller, is_signer, target, title, rating,
                      description)
        IN \A a \in PDAs :
               (created[a] # {} /\ tx.bank[a] # bank[a]) =>
                   /\ variant = UpdateReview
                   /\ tx.res.ok
                   /\ is_signer
                   /\ target = a
                   /\ \E c \in created[a] : c.by = caller

C6_Witness ==
    \E a \in PDAs : \E c \in created[a] : \E other \in Keys \ {c.by} :
        /\ ntx >= 2
        /\ HasStaleBytes(a)
        /\ Run(UpdateReview, c.by, TRUE, a, c.title, 10, <<71>>).bank[a] # bank[a]
        /\ Run(UpdateReview, other, TRUE, a, c.title, 10, <<71>>).bank[a] = bank[a]

\* Ratings an instruction can carry, at the two bounds, next to them and at
\* the end of the u8 range
BoundaryRatings == {0, 1, 10, 11, 255}

\* What a handler returns when it turns the operation down before it looks
\* at the rating
RejectedBeforeRating(variant) ==
    IF variant = AddReview THEN AddRejectedByGuard
    ELSE UpdateRejectedByGuard \cup {Custom(UninitializedAccount)}

\* C7: a Create or Update that reaches the rating check is rejected with
\* InvalidRating when its rating is 0 or is 11 or more (one that does not
\* reach it is rejected as with any rating); with a rating in 1..10 it is
\* never rejected with InvalidRating and ends as with any other rating in
\* range.
C7_RatingBounds ==
    \A variant \in Variants, caller \in Keys, is_signer \in BOOLEAN,
       target \in Addresses, title \in Titles, description \in Descriptions :
        LET inrange == Run(variant, caller, is_signer, target, title, 5,
                           description)
        IN \A rating \in BoundaryRatings :
               LET tx == Run(variant, caller, is_signer, target, title, rating,
                             description)
               IN IF rating = 0 \/ rating >= 11
                  THEN IF inrange.res \in RejectedBeforeRating(variant)
                       THEN tx.res = inrange.res
                       ELSE tx.res = Custom(InvalidRating)
                  ELSE /\ tx.res # Custom(InvalidRating)
                       /\ tx.res = inrange.res

C7_Witness ==
    \E a \in PDAs : \E c \in created[a] :
        /\ Read(bank, a).val.rating = 10
        /\ Run(UpdateReview, c.by, TRUE, a, c.title, 11, <<>>).res
               = Custom(InvalidRating)
        /\ Run(UpdateReview, c.by, TRUE, a, c.title, 0, <<>>).res
               = Custom(InvalidRating)
        /\ Run(UpdateReview, c.by, TRUE, a, c.title, 1, <<>>).res.ok
        /\ \E k \in Keys, t \in Titles :
               /\ Run(AddReview, k, TRUE, derive_review_address(k, t), t, 0,
                      <<>>).res = Custom(InvalidRating)
               /\ Run(AddReview, k, TRUE, derive_review_address(k, t), t, 10,
                      <<>>).res.ok

\* C8: after a successful Update the slot reads back as initialized, with the
\* title given at creation and the rating and description of the Update, the
\* last one if there were several.
C8_UpdateThenRead ==
    \A caller \in Keys, target \in PDAs, title \in Titles, rating \in 1..10,
       description \in Descriptions :
        LET tx == Run(UpdateReview, caller, TRUE, target, title, rating,
                      description)
        IN tx.res.ok =>
               \E c \in created[target] :
                   /\ c.by = caller
                   /\ Read(tx.bank, target) =
                          Stored(AccountState(TRUE, rating, description, c.title))

\* A record that was updated twice: to a shorter description, which left
\* bytes of the longer one behind, and back.
C8_Witness ==
    \E a \in PDAs : \E c \in created[a] :
        /\ ntx = 3
        /\ \A b \in PDAs \ {a} : bank[b] = Unallocated
        /\ HasStaleBytes(a)
        /\ Read(bank, a) = Stored(AccountState(TRUE, 1, <<>>, c.title))

C10_TitleAndSlotStay ==
    \A a \in Addresses : \A c \in created[a] :
        /\ bank[a].owner = program_id
        /\ bank[a].lamports > 0
        /\ bank[a].data.len = account_len
        /\ Read(bank, a).ok
        /\ Read(bank, a).val.is_initialized
        /\ Read(bank, a).val.title = c.title
        /\ a = derive_review_address(c.by, c.title)

\* The creator has sent an Update carrying the other title, and it went through
C10_Witness ==
    \E a \in PDAs : \E c \in created[a] :
        /\ c.title = <<80>>
        /\ ntx = 2
        /\ Read(bank, a) = Stored(AccountState(TRUE, 10, <<71>>, <<80>>))
        /\ LET tx == Run(UpdateReview, c.by, TRUE, a, <<81, 82>>, 1, <<>>)
           IN tx.res.ok /\ Read(tx.bank, a).val.title = <<80>>

\* C13: the address a client derives for (caller, title), the address a
\* Create checks and allocates, and the address an Update re-derives from the
\* caller and the stored title are one address: a Create passes the address
\* check on the client's address and on no other, what it allocates is that
\* address (the bump it signs with derives it again), and the creator's
\* Update of the record is not turned down by the re-derivation.
C13_DerivationsAgree ==
    /\ \A caller \in Keys, title \in Titles, target \in Addresses :
           LET tx == Run(AddReview, caller, TRUE, target, title, 10, <<71>>)
               theirs == derive_review_address(caller, title)
           IN /\ (tx.res = Err("InvalidArgument")) = (target # theirs)
              /\ tx.res \notin {Err("InvalidSeeds"), Err("PrivilegeEscalation"),
                                Err("ProgramFailedToComplete")}
              /\ (target = theirs /\ created[theirs] = {}) =>
                     /\ tx.res.ok
                     /\ tx.bank[theirs].owner = program_id
                     /\ \A a \in PDAs \ {theirs} : tx.bank[a] = bank[a]
    /\ \A a \in PDAs : \A c \in created[a] :
           /\ a = derive_review_address(c.by, c.title)
           /\ a = derive_review_address(c.by, Read(bank, a).val.title)
           /\ Run(UpdateReview, c.by, TRUE, a, c.title, 10, <<71>>).res.ok

\* A record exists at the address its creator's client derived, with the
\* second bump the search tries, and its creator can update it
C13_Witness ==
    \E k \in Keys, t \in Titles :
        LET a == derive_review_address(k, t)
        IN /\ created[a] = {[by |-> k, title |-> t]}
           /\ find_program_address(<<as_ref(k), t>>, program_id).bump = 254
           /\ Run(UpdateReview, k, TRUE, a, t, 1, <<>>).res.ok
           /\ Run(AddReview, k, TRUE, a, t, 1, <<>>).res = Custom(0)

\* C27: in the data of every review account, every byte after the record
\* the account holds is zero, also after an Update that makes the
\* description shorter.
C27_RemainderIsZero ==
    \A a \in PDAs : bank[a].owner = program_id => ~HasStaleBytes(a)

\* C29: every review account holds a record that reads back, and an
\* initialized record has a rating from 1 to 10.
C29_StoredRatingInRange ==
    \A a \in PDAs :
        bank[a].owner = program_id =>
            /\ Read(bank, a).ok
            /\ is_initialized(Read(bank, a).val) =>
                   Read(bank, a).val.rating \in 1..10

\* Records with the lowest and the highest rating are stored, one of them
\* put there by an Update, and the ratings next to the range are refused
C29_Witness ==
    \E a1 \in PDAs, a2 \in PDAs : \E c \in created[a1] :
        /\ ntx = 3
        /\ Read(bank, a1).val.rating = 1
        /\ Read(bank, a2).val.rating = 10
        /\ is_initialized(Read(bank, a1).val) /\ is_initialized(Read(bank, a2).val)
        /\ Run(UpdateReview, c.by, TRUE, a1, c.title, 0, <<>>).res
               = ReviewError_into(InvalidRating)
        /\ Run(UpdateReview, c.by, TRUE, a1, c.title, 11, <<>>).res
               = ReviewError_into(InvalidRating)

\* The same operation submitted again, after `tx`, with another rating
Retry(tx, variant, caller, target, title, rating, description) ==
    process_transaction(tx.bank, Accounts(caller, TRUE, target),
                        instruction_data(variant, title, rating, description))

\* C30 as stated: a Create or Update turned down for its rating leaves the
\* target as it was, and the same operation with a rating from 1 to 10
\* succeeds.
C30_RetryWithValidRatingSucceeds ==
    \A variant \in Variants, caller \in Keys, target \in PDAs, title \in Titles,
       bad \in {0, 11}, description \in Descriptions :
        LET tx == Run(variant, caller, TRUE, target, title, bad, description)
        IN tx.res = ReviewError_into(InvalidRating) =>
               /\ tx.bank = bank
               /\ \A rating \in {1, 10} :
                      Retry(tx, variant, caller, target, title, rating,
                            description).res.ok

\* C30 amended: a Create or Update turned down for its rating leaves every
\* account as it was, and the same operation with a rating from 1 to 10 is
\* turned down neither for the rating nor by the guard: it succeeds if the
\* record fits the account and, for a Create, the target is unallocated and
\* the caller can pay for it; a Create of a slot that exists is turned down
\* by the system program, and a record that does not fit with BorshIoError.
C30_RetryWithValidRatingPassesChecks ==
    \A variant \in Variants, caller \in Keys, target \in PDAs, title \in Titles,
       bad \in {0, 11}, description \in Descriptions \cup {LongDescription} :
        LET tx == Run(variant, caller, TRUE, target, title, bad, description)
        IN tx.res = ReviewError_into(InvalidRating) =>
               /\ tx.bank = bank
               /\ \A rating \in {1, 10} :
                      LET again == Retry(tx, variant, caller, target, title,
                                         rating, description)
                      IN IF variant = AddReview /\ bank[target] # Unallocated
                         THEN again.res = Custom(0)
                         ELSE IF variant = AddReview
                                 /\ bank[caller].lamports < minimum_balance(account_len)
                         THEN again.res = Custom(1)
                         ELSE IF description = LongDescription
                         THEN again.res = Err("BorshIoError")
                         ELSE /\ again.res.ok
                              /\ Read(again.bank, target).val.rating = rating
                              /\ Read(again.bank, target).val.description = description

\* A record exists whose creator's Update with rating 11 is turned down for
\* the rating and goes through with rating 10, as does the Create of a free
\* slot; the Create of the record's own slot is turned down for the rating
\* with rating 11, and as already in use with rating 10
C30_Witness ==
    \E a \in PDAs : \E c \in created[a] : \E t \in Titles :
        LET free == derive_review_address(c.by, t)
            invalid == ReviewError_into(InvalidRating)
        IN /\ ntx >= 2
           /\ bank[free] = Unallocated
           /\ Run(UpdateReview, c.by, TRUE, a, c.title, 11, <<71>>).res = invalid
           /\ Run(UpdateReview, c.by, TRUE, a, c.title, 10, <<71>>).res.ok
           /\ Run(AddReview, c.by, TRUE, free, t, 0, <<71>>).res = invalid
           /\ Run(AddReview, c.by, TRUE, free, t, 1, <<71>>).res.ok
           /\ Run(AddReview, c.by, TRUE, a, c.title, 11, <<71>>).res = invalid
           /\ Run(AddReview, c.by, TRUE, a, c.title, 10, <<71>>).res = Custom(0)

-----------------------------------------------------------------------------
(* Properties of the review program at its edges (SpecEdge)                *)

\* C17: a Create or Update whose record would serialize to more than
\* account_len bytes fails with BorshIoError and leaves every account as it
\* was, no truncated record in the slot; one whose record serializes to
\* exactly account_len bytes ends as the same operation with a short
\* description does, and if that is success the whole record is stored.
C17_RecordSizeLimit ==
    \A variant \in Variants, caller \in Keys, title \in Titles :
        LET target == derive_review_address(caller, title)
            fits == SizedDescription(title, account_len)
            toolong == SizedDescription(title, account_len + 1)
            short == Run(variant, caller, TRUE, target, title, 10, <<71>>)
            full == Run(variant, caller, TRUE, target, title, 10, fits)
            over == Run(variant, caller, TRUE, target, title, 10, toolong)
        IN /\ 1 + 1 + 4 + Len(fits) + 4 + Len(title) = 1000
           /\ 1 + 1 + 4 + Len(toolong) + 4 + Len(title) = 1001
           /\ full.res = short.res
           /\ full.res.ok =>
                  Read(full.bank, target) =
                      Stored(AccountState(TRUE, 10, fits, title))
           /\ over.res = IF short.res.ok THEN Err("BorshIoError") ELSE short.res
           /\ over.bank = bank

\* A record of exactly account_len bytes is stored; an Update that would make
\* it one byte longer fails, though the handler has by then overwritten the
\* account with the first account_len bytes of the longer record
C17_Witness ==
    \E k \in Keys :
        LET a == derive_review_address(k, <<80>>)
            toolong == SizedDescription(<<80>>, account_len + 1)
            out == process_instruction(
                       program_id, Accounts(k, TRUE, a),
                       Buffer(instruction_data(UpdateReview, <<80>>, 10, toolong)),
                       bank)
        IN /\ ntx = 2
           /\ Len(bank[a].data.used) = account_len
           /\ Read(bank, a) =
                  Stored(AccountState(TRUE, 10,
                                      SizedDescription(<<80>>, account_len), <<80>>))
           /\ out.res = Err("BorshIoError")
           /\ out.bank[a] # bank[a]
           /\ Run(UpdateReview, k, TRUE, a, <<80>>, 10, toolong).bank = bank

\* C18 as stated: a Create or Update that its caller did not sign is
\* rejected with MissingRequiredSignature, whatever the target is.
C18_UnsignedIsMissingSignature ==
    \A variant \in Variants, caller \in Keys, target \in Addresses,
       title \in Titles, rating \in Ratings, description \in Descriptions :
        Run(variant, caller, FALSE, target, title, rating, description).res
            = Err("MissingRequiredSignature")

\* C18 amended: a Create or Update that its caller did not sign is rejected
\* and changes nothing, whatever the target is: with MissingRequiredSignature
\* if it is a Create, or an Update of an account the program owns, and with
\* IllegalOwner if it is an Update of an account the program does not own
\* (Update checks the owner before the signature).
C18_UnsignedIsRejected ==
    \A variant \in Variants, caller \in Keys, target \in Addresses,
       title \in Titles, rating \in Ratings, description \in Descriptions :
        LET tx == Run(variant, caller, FALSE, target, title, rating, description)
        IN /\ tx.bank = bank
           /\ tx.res = IF variant = UpdateReview /\ bank[target].owner # program_id
                       THEN Err("IllegalOwner")
                       ELSE Err("MissingRequiredSignature")

\* A record exists whose creator's Update, signed, goes through, and
\* unsigned, is turned down for the signature; the unsigned Update of a slot
\* that holds nothing is turned down for the owner.
C18_Witness ==
    \E a \in PDAs : \E c \in created[a] : \E free \in PDAs :
        /\ ntx >= 2
        /\ bank[free] = Unallocated
        /\ Run(UpdateReview, c.by, TRUE, a, c.title, 10, <<71>>).res.ok
        /\ Run(UpdateReview, c.by, FALSE, a, c.title, 10, <<71>>).res
               = Err("MissingRequiredSignature")
        /\ Run(AddReview, c.by, FALSE, free, c.title, 10, <<71>>).res
               = Err("MissingRequiredSignature")
        /\ Run(UpdateReview, c.by, FALSE, free, c.title, 10, <<71>>).res
               = Err("IllegalOwner")

\* C19: an Update of an account the program does not own, a slot in which no
\* Create has succeeded among them, is rejected with IllegalOwner, whoever
\* signs it, and changes no account.
C19_UpdateOfForeignSlot ==
    /\ \A a \in Addresses : created[a] = {} => bank[a].owner # program_id
    /\ \A caller \in Keys, is_signer \in BOOLEAN, target \in Addresses,
          title \in Titles, rating \in Ratings, description \in Descriptions :
           bank[target].owner # program_id =>
               LET tx == Run(UpdateReview, caller, is_signer, target, title,
                             rating, description)
               IN tx.res = Err("IllegalOwner") /\ tx.bank = bank

\* After a Create and two more transactions a slot is still unallocated, and
\* the Update its would-be creator signs for it is turned down for the owner,
\* as is the Update of a wallet
C19_Witness ==
    \E k \in Keys, t \in Titles :
        LET free == derive_review_address(k, t)
        IN /\ ntx = MaxTx
           /\ \E a \in PDAs : created[a] # {}
           /\ created[free] = {} /\ bank[free] = Unallocated
           /\ Run(UpdateReview, k, TRUE, free, t, 10, <<71>>).res
                  = Err("IllegalOwner")
           /\ Run(UpdateReview, k, TRUE, k, t, 10, <<71>>).res
                  = Err("IllegalOwner")

FailureKinds ==
    {"empty input", "unknown variant", "malformed payload", "missing signature",
     "address mismatch", "wrong owner", "invalid rating", "storage error"}

\* What a Create or Update that fails in the given way reports.  The record
\* `c` exists at address `a`; `other` is not its creator; the slot of
\* (c.by, title) holds nothing.  A Create has no owner check: its case of a
\* wrong owner is the Update's.
FailureCode(kind, variant, a, c, other, title) ==
    LET free == derive_review_address(c.by, title)
        mine == IF variant = AddReview THEN free ELSE a
        its_title == IF variant = AddReview THEN title ELSE c.title
        payload == ReviewPayload_bytes(its_title, 10, <<71>>)
        raw(data) == process_transaction(bank, Accounts(c.by, TRUE, mine), data).res
    IN CASE kind = "empty input" -> raw(<<>>)
         [] kind = "unknown variant" -> raw(<<2>> \o payload)
         [] kind = "malformed payload" ->
                raw(<<variant>> \o SubSeq(payload, 1, Len(payload) - 1))
         [] kind = "missing signature" ->
                Run(variant, c.by, FALSE, mine, its_title, 10, <<71>>).res
         [] kind = "address mismatch" ->
                Run(variant, other, TRUE, mine, its_title, 10, <<71>>).res
         [] kind = "wrong owner" ->
                Run(UpdateReview, c.by, TRUE, free, title, 10, <<71>>).res
         [] kind = "invalid rating" ->
                Run(variant, c.by, TRUE, mine, its_title, 11, <<71>>).res
         [] kind = "storage error" ->
                Run(variant, c.by, TRUE, mine, its_title, 10,
                    SizedDescription(its_title, account_len + 1)).res

\* C20: each kind of failure is reported with a code of its own, different
\* from the code of every other kind, and with the same code by Create and
\* by Update.
C20_DistinctStableCodes ==
    \A a \in PDAs : \A c \in created[a] : \A other \in Keys \ {c.by} :
        \A title \in Titles :
            bank[derive_review_address(c.by, title)] = Unallocated =>
                /\ \A kind \in FailureKinds :
                       /\ ~FailureCode(kind, AddReview, a, c, other, title).ok
                       /\ FailureCode(kind, AddReview, a, c, other, title)
                              = FailureCode(kind, UpdateReview, a, c, other, title)
                /\ \A k1 \in FailureKinds : \A k2 \in FailureKinds \ {k1} :
                       \A v1 \in Variants, v2 \in Variants :
                           FailureCode(k1, v1, a, c, other, title)
                               # FailureCode(k2, v2, a, c, other, title)

AuthorizationKinds == {"missing signature", "address mismatch", "wrong owner"}

\* C21: an operation turned down by an authorization check reports the same
\* error whichever check it was: the missing signature, the address
\* mismatch or the wrong owner, in a Create or in an Update.
C21_AuthorizationFailuresAlike ==
    \A a \in PDAs : \A c \in created[a] : \A other \in Keys \ {c.by} :
        \A title \in Titles :
            bank[derive_review_address(c.by, title)] = Unallocated =>
                \A k1 \in AuthorizationKinds : \A k2 \in AuthorizationKinds :
                    \A v1 \in Variants, v2 \in Variants :
                        FailureCode(k1, v1, a, c, other, title)
                            = FailureCode(k2, v2, a, c, other, title)

-----------------------------------------------------------------------------
(* Instruction buffers: what clients encode, edited byte by byte           *)

\* Buffers the clients' encoders produce, and the empty buffer
EncodedInstructions ==
    { instruction_data(variant, title, 10, description) :
          variant \in {AddReview, UpdateReview}, title \in { <<>>, <<80>> },
          description \in { <<>>, <<71>> } }
    \cup { <<variant, 5, 0, 0, 0>> : variant \in {0, 1, 2} }
    \cup { <<3>>, <<>> }

\* Bytes an edit puts into a buffer: variant bytes and small lengths, a
\* letter, a byte that is not UTF-8
EditBytes == {0, 1, 2, 3, 65, 200}

InitDecode ==
    /\ InitReview
    /\ ntx = 0
    /\ InitNoTokens
    /\ InitNoRecord
    /\ wire \in EncodedInstructions
    /\ nedits = 0
    /\ decoded = Decode(wire)

Edited(bytes) ==
    /\ nedits < MaxEdits
    /\ nedits' = nedits + 1
    /\ wire' = bytes
    /\ decoded' = Decode(bytes)
    /\ UNCHANGED <<review_vars, ntx, tokens, record_vars>>

AppendByte(b) == Edited(Append(wire, b))
SetByte(i, b) == Edited([wire EXCEPT ![i] = b])
DropLast == wire # <<>> /\ Edited(SubSeq(wire, 1, Len(wire) - 1))

NextDecode ==
    \/ \E b \in EditBytes : AppendByte(b)
    \/ \E i \in 1..Len(wire), b \in EditBytes : SetByte(i, b)
    \/ DropLast

SpecDecode == InitDecode /\ [][NextDecode]_vars

\* `bytes` is the encoding of some payload (title, rating, description) with
\* a title of n bytes
IsPayloadOfTitleLen(bytes, n) ==
    LET title == SubSeq(bytes, 5, 4 + n)
        rating == bytes[5 + n]
        description == SubSeq(bytes, 10 + n, Len(bytes))
    IN /\ is_utf8(title) /\ is_utf8(description)
       /\ bytes = ReviewPayload_bytes(title, rating, description)

IsPayload(bytes) ==
    \E n \in 0..(Len(bytes) - 9) : IsPayloadOfTitleLen(bytes, n)

\* C14: the review decoder returns an instruction exactly when the buffer is
\* not empty, its first byte is 0 or 1 and the bytes after it are the
\* encoding of a (title, rating, description); the instruction is then an
\* AddReview for 0 and an UpdateReview for 1 with exactly these fields.  An
\* empty buffer, a first byte of 2 or more and bytes that are no such
\* encoding give an error.
C14_DecodeExactlyEncodings ==
    LET d == decoded.review
    IN /\ d.ok = ( /\ wire # <<>>
                   /\ wire[1] \in {0, 1}
                   /\ IsPayload(Tail(wire)) )
       /\ d.ok =>
              /\ d.variant = wire[1]
              /\ d.variant \in {AddReview, UpdateReview}
              /\ Tail(wire) = ReviewPayload_bytes(d.title, d.rating, d.description)
       /\ ~d.ok => d = NoInstruction
       /\ wire = <<>> => ~d.ok
       /\ (wire # <<>> /\ wire[1] >= 2) => ~d.ok

\* An UpdateReview was decoded from a buffer that two edits have changed,
\* and the same payload behind the variant byte 2 is turned down
C14_Witness ==
    /\ nedits = 2
    /\ decoded.review.ok
    /\ decoded.review.variant = UpdateReview
    /\ decoded.review.title = <<65>>
    /\ decoded.review.rating = 200
    /\ ~unpack(Buffer([wire EXCEPT ![1] = 2])).ok

\* C15: the counter decoder ends in an instruction or an error value for
\* every buffer, and in an error value when the variant byte is 0, 1 or 2
\* and the bytes after it are not a u32; it never panics.
C15_CounterDecodeNeverPanics ==
    /\ decoded.counter.outcome \in {"op", "err"}
    /\ (wire # <<>> /\ wire[1] \in {0, 1, 2} /\ Len(wire) # 5) =>
           decoded.counter.outcome = "err"

\* C23: the counter decoder turns the variant byte 0, 1 or 2 followed by the
\* four bytes of a value into Increment, Decrement or Update (set value) of
\* that value, the variant byte 3 into Reset, which has no value, and an
\* empty buffer and every other variant byte into an error value.
C23_CounterDecode ==
    /\ wire = <<>> => decoded.counter = CounterErr
    /\ wire # <<>> =>
           /\ (wire[1] \in {0, 1, 2} /\ Len(wire) = 5) =>
                  decoded.counter = CounterOp(wire[1], SubSeq(wire, 2, 5))
           /\ wire[1] = 3 => decoded.counter = CounterOp(3, <<>>)
           /\ wire[1] >= 4 => decoded.counter = CounterErr

\* An Increment of 5 edited into an Update (set value) of a larger value
C23_Witness ==
    /\ nedits >= 2
    /\ wire = <<2, 5, 0, 0, 200>>
    /\ decoded.counter.outcome = "op"
    /\ decoded.counter.variant = 2
    /\ decoded.counter.value = <<5, 0, 0, 200>>
    /\ CounterInstructions_unpack(Buffer(<<65>> \o Tail(wire))).outcome = "err"

\* What the counter decoder does with the bytes after an instruction: the
\* buffer starts with a shorter buffer that decodes to an instruction, and
\* it decodes to that instruction ("tolerated") or to none ("rejected");
\* "none" if no shorter buffer decodes.
TrailingBytePolicy(bytes) ==
    LET heads == {head \in {SubSeq(bytes, 1, n) : n \in 1..(Len(bytes) - 1)} :
                      CounterInstructions_unpack(Buffer(head)).outcome = "op"}
        out == CounterInstructions_unpack(Buffer(bytes))
    IN IF heads = {} THEN "none"
       ELSE IF \E head \in heads : out = CounterInstructions_unpack(Buffer(head))
            THEN "tolerated"
       ELSE IF out.outcome = "op" THEN "another instruction"
       ELSE "rejected"

\* Each of the four counter instructions, with one more byte after it
CounterInstructionsAndOneByte ==
    { <<variant, 5, 0, 0, 0, b>> : variant \in {0, 1, 2}, b \in EditBytes }
        \cup { <<3, b>> : b \in EditBytes }

\* C28: the counter decoder treats bytes after an instruction in one way,
\* whatever the instruction: it tolerates them after Increment, Decrement,
\* Update and Reset alike, or it rejects them after all four.
C28_OneTrailingBytePolicy ==
    /\ \A other \in CounterInstructionsAndOneByte :
           TrailingBytePolicy(other) \in {"tolerated", "rejected"}
    /\ TrailingBytePolicy(wire) # "none" =>
           \A other \in CounterInstructionsAndOneByte :
               TrailingBytePolicy(other) = TrailingBytePolicy(wire)

\* The buffers `wire` is made of: one that a decoder accepts, and at least
\* one byte after it
Heads == {SubSeq(wire, 1, n) : n \in 1..(Len(wire) - 1)}

\* C16 as stated: a buffer made of a buffer that decodes and of extra bytes
\* decodes to the same instruction.
C16_TrailingBytesTolerated ==
    \A head \in Heads :
        /\ unpack(Buffer(head)).ok => decoded.review = unpack(Buffer(head))
        /\ CounterInstructions_unpack(Buffer(head)).outcome = "op" =>
               decoded.counter = CounterInstructions_unpack(Buffer(head))

\* C16 amended: bytes after a well-formed payload are not tolerated.  A
\* buffer made of a buffer the review decoder accepts and of extra bytes is
\* turned down by it; one made of a buffer the counter decoder accepts with
\* a payload (variant 0, 1 or 2) and of extra bytes does not decode to an
\* instruction; only after the variant byte 3, which has no payload, is
\* whatever follows ignored.
C16_TrailingBytesRejected ==
    \A head \in Heads :
        LET c == CounterInstructions_unpack(Buffer(head))
        IN /\ unpack(Buffer(head)).ok => decoded.review = NoInstruction
           /\ (c.outcome = "op" /\ c.variant # 3) => decoded.counter.outcome # "op"
           /\ (c.outcome = "op" /\ c.variant = 3) => decoded.counter = c

\* One byte was appended to an encoded AddReview, and one to an encoded
\* counter instruction
C16_Witness ==
    /\ nedits = 1
    /\ \E head \in Heads :
           \/ /\ unpack(Buffer(head)).ok
              /\ unpack(Buffer(head)).description = <<71>>
              /\ Len(wire) = Len(head) + 1
              /\ ~decoded.review.ok
           \/ /\ CounterInstructions_unpack(Buffer(head)) = CounterOp(2, <<5, 0, 0, 0>>)
              /\ Len(wire) = 6

-----------------------------------------------------------------------------
(* Records written over one another in the data of a review account        *)

RecordDescriptions ==
    { <<>>, <<71>>, <<71, 72>>, <<0>>,
      [i \in 1..(account_len - 11) |-> 71], [i \in 1..(account_len - 10) |-> 71] }

\* Valid records: every flag, ratings over the u8 range, strings that are
\* empty, short, hold a zero byte, or fill the account to its last byte and
\* one byte beyond
Records ==
    { AccountState(i, r, d, <<80>>) :
          i \in BOOLEAN, r \in {0, 1, 255}, d \in RecordDescriptions }
    \cup { AccountState(TRUE, 10, <<71>>, s) : s \in { <<>>, <<81, 82>> } }

\* The data of an account that create_account has just allocated
InitRecord ==
    /\ InitReview
    /\ ntx = 0
    /\ InitNoTokens
    /\ InitNoDecode
    /\ slot = [len |-> account_len, used |-> <<>>]
    /\ written = AccountState(FALSE, 0, <<>>, <<>>)

\* record.serialize(&mut &mut data[..]) by a handler; if it fails the
\* handler fails and the data is as before the transaction.
WriteRecord(record) ==
    LET w == AccountState_serialize(record, slot)
    IN /\ slot' = commit(IF w.ok THEN Ok ELSE Err("BorshIoError"), slot, w.data)
       /\ written' = IF w.ok THEN record ELSE written
       /\ UNCHANGED <<review_vars, ntx, tokens, decode_vars>>

NextRecord == \E record \in Records : WriteRecord(record)

SpecRecord == InitRecord /\ [][NextRecord]_vars

\* The serialized size of a record: 1 + 1 + 4 + |description| + 4 + |title|
serialized_size(record) == 10 + Len(record.description) + Len(record.title)

\* C12: a record that fits the account, written into its data, reads back
\* as the same record, whatever was written there before.
C12_RoundTrip ==
    /\ AccountState_deserialize(slot) = Stored(written)
    /\ \A record \in Records :
           serialized_size(record) <= slot.len =>
               LET w == AccountState_serialize(record, slot)
               IN w.ok /\ AccountState_deserialize(w.data) = Stored(record)

\* A short record lies over the bytes of a longer one written before it
C12_Witness ==
    /\ written = AccountState(FALSE, 0, <<>>, <<80>>)
    /\ Len(slot.used) = account_len
    /\ slot.used[account_len] = 80
    /\ slot.used[account_len - 5] = 71

\* A buffer of `len` zero bytes
Zeroed(len) == [len |-> len, used |-> <<>>]

\* C22: reading account data that is all zero bytes succeeds and gives the
\* uninitialized record: flag unset, rating 0, empty description and title.
C22_ZeroBufferReadsUninitialized ==
    /\ slot.used = <<>> =>
           AccountState_deserialize(slot)
               = Stored(AccountState(FALSE, 0, <<>>, <<>>))
    /\ \A len \in {serialized_size(AccountState(FALSE, 0, <<>>, <<>>)), account_len} :
           LET read == AccountState_deserialize(Zeroed(len))
           IN /\ read.ok
              /\ ~is_initialized(read.val)
              /\ read.val.rating = 0
              /\ read.val.description = <<>>
              /\ read.val.title = <<>>

\* The data of a newly allocated account, before any record is written
C22_Witness ==
    /\ slot = Zeroed(account_len)
    /\ AccountState_deserialize(slot).ok
    /\ ~is_initialized(AccountState_deserialize(slot).val)

-----------------------------------------------------------------------------
(* Properties of the transfer program (SpecTransfer)                       *)

RunTransfer(source, mint, destination, authority, token_program) ==
    transfer_process_transaction(
        tokens, TransferAccounts(source, mint, destination, authority,
                                 token_program))

\* A source the derived authority can be asked to move 100 tokens out of
HoldsForAuthority(source) ==
    /\ tokens[source].owner = authority_pubkey
    /\ tokens[source].amount >= 100

\* The transfer moved exactly 100 tokens from source to destination
Moved100(tx, source, destination) ==
    /\ tx.res.ok
    /\ tx.tokens[destination].amount = tokens[destination].amount + 100
    /\ tx.tokens[source].amount = tokens[source].amount - 100
    /\ tx.tokens[source].amount + tx.tokens[destination].amount
           = tokens[source].amount + tokens[destination].amount

\* C11 as stated: a transfer invoked with the derived authority on a source
\* the authority owns and that holds at least 100 tokens succeeds and moves
\* exactly 100 tokens to the destination, whatever token account the
\* destination is.
C11_TransferMoves100 ==
    \A source \in TokenAccountKeys, destination \in TokenAccountKeys :
        HoldsForAuthority(source) =>
            Moved100(RunTransfer(source, tokens[source].mint, destination,
                                 authority_pubkey, SPL_TOKEN_ID),
                     source, destination)

\* C11 amended: a transfer invoked with the derived authority, the source's
\* mint and the token program, on a source the authority owns and that holds
\* at least 100 tokens, to a destination that is another account of the same
\* mint, neither account frozen, succeeds and moves exactly 100 tokens: the
\* destination gains 100, the source loses 100, their sum and every other
\* account stay as they were.
C11_TransferMoves100BetweenAccounts ==
    \A source \in TokenAccountKeys, destination \in TokenAccountKeys :
        ( /\ HoldsForAuthority(source)
          /\ destination # source
          /\ tokens[destination].mint = tokens[source].mint
          /\ ~tokens[source].frozen /\ ~tokens[destination].frozen ) =>
            LET tx == RunTransfer(source, tokens[source].mint, destination,
                                  authority_pubkey, SPL_TOKEN_ID)
            IN /\ Moved100(tx, source, destination)
               /\ \A k \in TokenKeys \ {source, destination} :
                      tx.tokens[k] = tokens[k]

\* Two transfers have reached the payer's account, and a third can follow
C11_Witness ==
    /\ ntx = 2
    /\ tokens[Wallet(23)].amount = 450
    /\ tokens[Wallet(21)].amount = 150
    /\ tokens[Wallet(22)].amount = 0
    /\ Moved100(RunTransfer(Wallet(21), mint_a, Wallet(23), authority_pubkey,
                            SPL_TOKEN_ID), Wallet(21), Wallet(23))

\* C24: a transfer that succeeds moves all the tokens the source held: the
\* source is left with none and the destination, another account, has
\* received them all, whatever the source held.
C24_TransferMovesWholeBalance ==
    \A source \in TokenAccountKeys : \A destination \in TokenAccountKeys \ {source} :
        LET tx == RunTransfer(source, tokens[source].mint, destination,
                              authority_pubkey, SPL_TOKEN_ID)
        IN tx.res.ok =>
               /\ tx.tokens[source].amount = 0
               /\ tx.tokens[destination].amount
                      = tokens[destination].amount + tokens[source].amount

\* Accounts a client can hand to the transfer program in the five places
TransferInputs ==
    [source : TokenKeys, mint : {mint_a, mint_b, Wallet(21)},
     destination : TokenKeys, authority : {authority_pubkey, payer},
     token_program : {SPL_TOKEN_ID, SYSTEM_PROGRAM_ID}]

RunTransferOf(in) ==
    RunTransfer(in.source, in.mint, in.destination, in.authority, in.token_program)

\* With an authority account that is not the derived address the handler
\* returns InvalidSeeds, invokes nothing and changes no account
RejectsForeignAuthority(in) ==
    LET tx == RunTransferOf(in)
    IN in.authority # authority_pubkey =>
           /\ tx.res = Err("InvalidSeeds")
           /\ tx.invoked = <<>>
           /\ tx.tokens = tokens

\* C25 as stated: the handler invokes the token program only when the
\* authority account is the address derived from "authority"; with any other
\* authority account it returns InvalidSeeds, invokes nothing and changes no
\* balance; with the derived one it invokes exactly one transfer.
C25_OneTransferIffAuthority ==
    \A in \in TransferInputs :
        /\ RejectsForeignAuthority(in)
        /\ in.authority = authority_pubkey => Len(RunTransferOf(in).invoked) = 1

\* C25 amended: as stated for any other authority account; with the derived
\* one the handler invokes at most one transfer: exactly one, of 100 tokens
\* from the source to the destination under that authority, when the source
\* unpacks as a token account, the mint as a mint and the token program
\* account is the token program, and none otherwise.
C25_AtMostOneTransferIffAuthority ==
    \A in \in TransferInputs :
        /\ RejectsForeignAuthority(in)
        /\ in.authority = authority_pubkey =>
               LET tx == RunTransferOf(in)
               IN IF /\ Account_unpack(tokens, in.source)
                     /\ Mint_unpack(tokens, in.mint)
                     /\ in.token_program = SPL_TOKEN_ID
                  THEN /\ Len(tx.invoked) = 1
                       /\ tx.invoked[1].source = in.source
                       /\ tx.invoked[1].mint = in.mint
                       /\ tx.invoked[1].destination = in.destination
                       /\ tx.invoked[1].authority = authority_pubkey
                       /\ tx.invoked[1].amount = 100
                  ELSE tx.invoked = <<>> /\ ~tx.res.ok /\ tx.tokens = tokens

\* After two transactions, the payer as authority is turned down where the
\* derived authority has one transfer invoked that moves tokens, and the
\* derived authority has none invoked on a source that is a mint
C25_Witness ==
    /\ ntx = 2
    /\ tokens[Wallet(21)].amount >= 100
    /\ RunTransfer(Wallet(21), mint_a, Wallet(23), payer, SPL_TOKEN_ID).res
           = Err("InvalidSeeds")
    /\ LET tx == RunTransfer(Wallet(21), mint_a, Wallet(23), authority_pubkey,
                             SPL_TOKEN_ID)
       IN tx.res.ok /\ Len(tx.invoked) = 1 /\ tx.tokens # tokens
    /\ RunTransfer(mint_a, mint_a, Wallet(23), authority_pubkey,
                   SPL_TOKEN_ID).invoked = <<>>

-----------------------------------------------------------------------------
(* The two handlers that invoke another program with signer seeds: Creates *)
(* of the review program and transfers of the transfer program, submitted  *)
(* in any order                                                            *)

InitInvoke ==
    /\ InitReview
    /\ ntx = 0
    /\ tokens = initial_tokens(250, 100, 99)
    /\ InitNoDecode
    /\ InitNoRecord

NextInvoke ==
    \/ \E caller \in Keys, is_signer \in BOOLEAN, target \in Addresses,
          title \in Titles :
           SubmitAddReview(caller, is_signer, target, title, 10, <<71>>)
    \/ \E source \in TokenKeys, mint \in {mint_a, mint_b, Wallet(21)},
          destination \in TokenKeys, authority \in {authority_pubkey, payer},
          token_program \in {SPL_TOKEN_ID, SYSTEM_PROGRAM_ID} :
           SubmitTransfer(source, mint, destination, authority, token_program)

SpecInvoke == InitInvoke /\ [][NextInvoke]_vars

\* What the host answers when the signer seeds of an invocation derive no
\* address, or not the address of the account that has to sign
SignerErrors == {Err("InvalidSeeds"), Err("PrivilegeEscalation")}

\* C26: the signer seeds a handler attaches to the invocation it makes are
\* the seeds and the bump that derived the address it compared with the
\* account it was given.  For a transfer the host derives from them the
\* authority of the transfer, which is the authority account; for a Create
\* it derives the address of the new account, which is the target.  The host
\* never turns an invocation down for its signer seeds.
C26_SignerSeedsDeriveTheCheckedAddress ==
    /\ \A in \in TransferInputs :
           LET tx == RunTransferOf(in)
           IN \A i \in 1..Len(tx.invoked) :
                  LET derived == create_program_address(
                                     tx.invoked[i].signers_seeds, transfer_program_id)
                  IN /\ derived.ok
                     /\ derived.address = tx.invoked[i].authority
                     /\ derived.address = in.authority
                     /\ tx.res \notin SignerErrors
    /\ \A caller \in Keys, is_signer \in BOOLEAN, target \in Addresses,
          title \in Titles :
           LET tx == Run(AddReview, caller, is_signer, target, title, 10, <<71>>)
           IN /\ tx.res \notin SignerErrors
              /\ (is_signer /\ target = derive_review_address(caller, title)) =>
                     IF bank[target] = Unallocated
                     THEN tx.res.ok /\ tx.bank[target].owner = program_id
                     ELSE tx.res = Custom(0)

\* A Create and a transfer have gone through, and another of each, with its
\* invocation, can follow
C26_Witness ==
    /\ \E a \in PDAs : created[a] # {}
    /\ tokens[Wallet(23)].amount = 199
    /\ \E k \in Keys, t \in Titles :
           /\ bank[derive_review_address(k, t)] = Unallocated
           /\ Run(AddReview, k, TRUE, derive_review_address(k, t), t, 10, <<71>>).res.ok
    /\ LET tx == RunTransfer(Wallet(21), mint_a, Wallet(23), authority_pubkey,
                             SPL_TOKEN_ID)
       IN tx.res.ok /\ Len(tx.invoked) = 1


-----------------------------------------------------------------------------
(* Reviews in either order.  The tests hand a reviewer 10,000,000 lamports,  *)
(* which pays the rent of one review account and not of two; a wallet here   *)
(* holds either that or the larger funding of the multi-transaction test.    *)

reviewer_funding == 10000000

InitOrder ==
    /\ \E f \in [Keys -> {reviewer_funding, funding}] :
          bank = [a \in Addresses |->
                     IF a \in Keys THEN Account(f[a], SYSTEM_PROGRAM_ID, NoData)
                     ELSE Unallocated]
    /\ created = [a \in Addresses |-> {}]
    /\ ntx = 0
    /\ InitNoTokens
    /\ InitNoDecode
    /\ InitNoRecord

NextOrder ==
    \E caller \in Keys, target \in PDAs, title \in Titles :
        \/ SubmitAddReview(caller, TRUE, target, title, 10, <<71>>)
        \/ SubmitUpdateReview(caller, TRUE, target, title, 1, <<>>)

SpecOrder == InitOrder /\ [][NextOrder]_vars

\* The signed operations a client can submit: a Create with rating 10 and a
\* one-byte description, an Update with rating 1 and an empty description
Operations == [variant : Variants, caller : Keys, target : PDAs, title : Titles]

Apply(b, op) ==
    process_transaction(
        b, Accounts(op.caller, TRUE, op.target),
        instruction_data(op.variant, op.title,
                         IF op.variant = AddReview THEN 10 ELSE 1,
                         IF op.variant = AddReview THEN <<71>> ELSE <<>>))

\* alone1 and alone2 are the two operations run on the current ledger; each is
\* then followed by the other
SameInEitherOrder(op1, op2, alone1, alone2) ==
    /\ Apply(alone2.bank, op1).res = alone1.res
    /\ Apply(alone1.bank, op2).res = alone2.res
    /\ \A a \in PDAs :
          Apply(alone1.bank, op2).bank[a] = Apply(alone2.bank, op1).bank[a]

Commute(op1, op2) ==
    SameInEitherOrder(op1, op2, Apply(bank, op1), Apply(bank, op2))

\* Two Creates paid by one wallet that cannot pay the rent of both accounts
SharePayerShortOfFunds(op1, op2) ==
    /\ op1.variant = AddReview
    /\ op2.variant = AddReview
    /\ op1.caller = op2.caller
    /\ bank[op1.caller].lamports < 2 * minimum_balance(account_len)

\* C31 as stated: any two operations on different derived addresses give the
\* same outcomes and the same final slots in either order.
C31_DifferentAddressesCommute ==
    \A op1 \in Operations : \A op2 \in Operations :
        op1.target # op2.target => Commute(op1, op2)

\* C31, amended: two operations on different derived addresses give the same
\* outcomes and the same final slots in either order, unless both are Creates
\* paid by the same caller whose lamports do not cover the rent of both.
C31_CommuteUnlessPayerShared ==
    \A op1 \in Operations : \A op2 \in Operations :
        (op1.target # op2.target /\ ~SharePayerShortOfFunds(op1, op2))
            => Commute(op1, op2)

\* Two Creates by different callers succeed on different addresses in a state
\* where an Update of a third address succeeds as well
C31_Witness ==
    \E op1 \in Operations : \E op2 \in Operations :
        /\ op1.target # op2.target
        /\ op1.caller # op2.caller
        /\ op1.variant = AddReview /\ op2.variant = AddReview
        /\ Apply(bank, op1).res.ok
        /\ Apply(Apply(bank, op1).bank, op2).res.ok
        /\ \E op3 \in Operations :
              /\ op3.variant = UpdateReview
              /\ op3.target \notin {op1.target, op2.target}
              /\ Apply(bank, op3).res.ok

-----------------------------------------------------------------------------
(* The stored title and the address of the slot                              *)

\* The address update_review derives for a signer from the title stored at a
Rederived(key, a) ==
    find_program_address(review_seeds(key, Read(bank, a).val.title),
                         program_id).address

\* C32: every account the program owns holds a record whose stored title,
\* with the key that signed the one Create of that record, derives the
\* account's own address; an Update signed by that key is never turned down
\* by the re-derivation, and an Update signed by any other key always is.
C32_StoredTitleDerivesOwnAddress ==
    \A a \in Addresses :
        bank[a].owner = program_id =>
            /\ a \in PDAs
            /\ Read(bank, a).ok
            /\ Cardinality(created[a]) = 1
            /\ \A c \in created[a] :
                  /\ Rederived(c.by, a) = a
                  /\ \A other \in Keys \ {c.by} : Rederived(other, a) # a
                  /\ \A k \in Keys, title \in Titles, rating \in Ratings,
                        description \in Descriptions :
                        (Run(UpdateReview, k, TRUE, a, title, rating,
                             description).res = Custom(InvalidPDA))
                            = (k # c.by)

\* Two callers hold a record under the same title, one of them shortened by
\* an Update that carried the other title
C32_Witness ==
    \E a1 \in PDAs, a2 \in PDAs :
        /\ a1 # a2
        /\ bank[a1].owner = program_id
        /\ bank[a2].owner = program_id
        /\ Read(bank, a1).val.title = Read(bank, a2).val.title
        /\ HasStaleBytes(a1)
        /\ \E c \in created[a1] :
              /\ Run(UpdateReview, c.by, TRUE, a1, <<80>>, 10, <<71>>).res.ok
              /\ Run(UpdateReview, c.by, TRUE, a1, <<81, 82>>, 10, <<71>>).res.ok
              /\ Rederived(c.by, a2) # a2

-----------------------------------------------------------------------------
(* Allocation and the first write                                            *)

\* C33: every account the program owns holds an initialized record, a Create
\* whose record cannot be written leaves no account behind, and no Update,
\* signed or not, on any account, returns UninitializedAccount.
C33_OwnedSlotsAreInitialized ==
    /\ \A a \in Addresses :
          bank[a].owner = program_id =>
              /\ Read(bank, a).ok
              /\ is_initialized(Read(bank, a).val)
    /\ \A k \in Keys, title \in Titles :
          Run(AddReview, k, TRUE, derive_review_address(k, title), title, 10,
              LongDescription).bank = bank
    /\ \A k \in Keys, is_signer \in BOOLEAN, target \in Addresses,
          title \in Titles, rating \in Ratings, description \in Descriptions :
          Run(UpdateReview, k, is_signer, target, title, rating,
              description).res # ReviewError_into(UninitializedAccount)

\* Next to a review account, a Create was allocated its account and could not
\* write the record: the address is still unallocated
C33_Witness ==
    \E a \in PDAs, k \in Keys, title \in Titles :
        /\ bank[a].owner = program_id
        /\ is_initialized(Read(bank, a).val)
        /\ bank[derive_review_address(k, title)] = Unallocated
        /\ Run(AddReview, k, TRUE, derive_review_address(k, title), title, 10,
               LongDescription).res = Err("BorshIoError")
        /\ Run(AddReview, k, TRUE, derive_review_address(k, title), title, 10,
               <<71>>).res.ok
        /\ Run(UpdateReview, k, TRUE, derive_review_address(k, title), title,
               10, <<71>>).res = Err("IllegalOwner")

-----------------------------------------------------------------------------
(* Who can have the derived authority's tokens moved                         *)

\* The accounts of a transfer with the derived authority and the token
\* program; of the source, the mint and the destination, those in `signers`
\* (positions in the list) have signed the transaction
TransferAccountsSignedBy(source, destination, signers) ==
    <<AccountInfo(source, 1 \in signers),
      AccountInfo(tokens[source].mint, 2 \in signers),
      AccountInfo(destination, 3 \in signers),
      AccountInfo(authority_pubkey, FALSE), AccountInfo(SPL_TOKEN_ID, FALSE)>>

\* A source of the derived authority with 100 tokens or more and a destination
\* of the same mint, neither frozen
ValidTransfer(tk, source, destination) ==
    /\ tk[source].owner = authority_pubkey
    /\ tk[source].amount >= 100
    /\ tk[destination].mint = tk[source].mint
    /\ ~tk[source].frozen /\ ~tk[destination].frozen

\* The transfer succeeded; to another account it moved 100 tokens, and it can
\* be invoked again as long as the source holds 100
Drains(tx, source, destination) ==
    /\ tx.res.ok
    /\ destination # source =>
          /\ Moved100(tx, source, destination)
          /\ ValidTransfer(tx.tokens, source, destination)
                 = (tokens[source].amount >= 200)
          /\ tokens[source].amount >= 200 =>
                 LET again == transfer_process_transaction(
                                  tx.tokens,
                                  TransferAccounts(source, tokens[source].mint,
                                                   destination, authority_pubkey,
                                                   SPL_TOKEN_ID))
                 IN /\ again.res.ok
                    /\ again.tokens[source].amount = tokens[source].amount - 200

\* C34: the transfer handler reads no signature and does not restrict the
\* destination: with the derived authority, a source of that authority holding
\* 100 tokens or more, its mint and any unfrozen destination of that mint, an
\* invocation succeeds whichever of its accounts signed, with the same result,
\* and moves 100 tokens to another account, again while the source holds 100;
\* a source of the authority with fewer than 100 tokens is left as it was.
C34_AnyoneMovesTheAuthoritysTokens ==
    \A source \in TokenAccountKeys : \A destination \in TokenAccountKeys :
        /\ ValidTransfer(tokens, source, destination) =>
              \A signers \in SUBSET {1, 2, 3} :
                  /\ Drains(transfer_process_transaction(
                                tokens,
                                TransferAccountsSignedBy(source, destination,
                                                         signers)),
                            source, destination)
                  /\ transfer_process_transaction(
                         tokens,
                         TransferAccountsSignedBy(source, destination, signers))
                       = RunTransfer(source, tokens[source].mint, destination,
                                     authority_pubkey, SPL_TOKEN_ID)
        /\ ( /\ tokens[source].owner = authority_pubkey
             /\ tokens[source].amount < 100
             /\ ~tokens[source].frozen /\ ~tokens[destination].frozen ) =>
              LET tx == RunTransfer(source, tokens[source].mint, destination,
                                    authority_pubkey, SPL_TOKEN_ID)
              IN /\ tx.res = Err("TokenError::InsufficientFunds")
                 /\ tx.tokens = tokens

\* Two unsigned transfers have taken 200 tokens of the authority to the
\* payer's account; the source is left with 50 and gives no more, while the
\* authority's other account can still be drawn from
C34_Witness ==
    /\ tokens[Wallet(21)].amount = 50
    /\ tokens[Wallet(23)].amount >= 299
    /\ tokens[Wallet(23)].owner = payer
    /\ ~ValidTransfer(tokens, Wallet(21), Wallet(23))
    /\ ValidTransfer(tokens, Wallet(22), Wallet(23))
    /\ Moved100(RunTransfer(Wallet(22), mint_a, Wallet(23), authority_pubkey,
                            SPL_TOKEN_ID), Wallet(22), Wallet(23))

====
